---- MODULE Spec2Model ----
(***************************************************************************)
(* Model of analyze_midi.py: the chord-analysis pipeline (analyze_chords),  *)
(* its pure helpers (quantize_value, simplify_roman_figure) and the         *)
(* command's control flow (main: input check, key override, analysis,       *)
(* snippet export, table printing, exit code).                              *)
(*                                                                          *)
(* Times are exact rationals written as integer ticks, one tick being a     *)
(* quarter of a quarter note (0.25 quarterLength), so the fallback          *)
(* duration 0.25 is 1 tick and a grid of 0.5 is 2 ticks.  Figures are       *)
(* sequences of one-character strings.  A figure that is None is the value  *)
(* None; an optional integer is the empty sequence or << n >>.              *)
(***************************************************************************)
EXTENDS Integers, Sequences, FiniteSets, TLC

VARIABLES
    pc,             \* position of the running function
    grid,           \* args.grid, in ticks
    dedupe,         \* args.dedupe
    min_notes,      \* args.min_notes
    limit,          \* args.limit: << >> when absent, else << L >>
    key_text,       \* args.key_text ("" when absent)
    stream,         \* reduced_part.recurse().notesAndRests, as a sequence
    pos,            \* number of elements the loop of analyze_chords has visited
    results,        \* analyze_chords: results
    last_roman,     \* analyze_chords: last_roman
    idx,            \* analyze_chords: idx
    error,          \* which fatal error main reported on stderr
    effective_key,  \* where the effective key came from
    analyzed,       \* main: analyzed
    exported,       \* indices of the records whose snippet file was written
    failed_at,      \* index of the record whose snippet write raised (0: none)
    warning,        \* main printed the export warning
    header,         \* main printed the table header
    rows,           \* indices of the table rows main printed, in order
    no_chords,      \* main printed the "No chords found" message
    exit_code,      \* main's return value: << >> while running, else << code >>
    figure,         \* input of simplify_roman_figure
    simple,         \* simplify_roman_figure(figure)
    resimple,       \* simplify_roman_figure(simple)
    value,          \* input of quantize_value
    quantized       \* quantize_value(value, grid)

vars == << pc, grid, dedupe, min_notes, limit, key_text, stream, pos, results,
           last_roman, idx, error, effective_key, analyzed, exported,
           failed_at, warning, header, rows, no_chords, exit_code, figure,
           simple, resimple, value, quantized >>

argVars == << grid, dedupe, min_notes, limit, key_text >>
loopVars == << stream, pos, results, last_roman, idx >>
mainVars == << error, effective_key, analyzed, exported, failed_at, warning,
               header, rows, no_chords, exit_code >>
pureVars == << figure, simple, resimple, value, quantized >>

None == << "None" >>

(***************************************************************************)
(* Bounds of the model.                                                     *)
(***************************************************************************)
MaxFigLen == 5      \* longest figure given to simplify_roman_figure
MaxValue == 7       \* quantize_value is applied to -MaxValue..MaxValue
MaxGrid == 3        \* grids are -1..MaxGrid ticks
MaxElems == 3       \* longest reduced stream
MaxOffset == 3      \* element offsets are 0..MaxOffset ticks
MaxLimit == 3       \* --limit is absent or in 0..MaxLimit
LongDur == 3        \* the positive source duration, in ticks

(***************************************************************************)
(* Program constants.                                                       *)
(***************************************************************************)
FallbackDur == 1        \* 0.25 quarterLength, the duration given to a chord without one
DefaultGrid == 1        \* --grid default, 0.25
DefaultMinNotes == 3    \* --min-notes default

(***************************************************************************)
(* quantize_value                                                           *)
(***************************************************************************)
\* Python's round() of the exact quotient n / d, d > 0: nearest integer,
\* a tie going to the even neighbour.
Round(n, d) ==
    LET q == n \div d
        r == n % d
    IN  IF 2 * r < d THEN q
        ELSE IF 2 * r > d THEN q + 1
        ELSE IF q % 2 = 0 THEN q ELSE q + 1

\* steps truncated instead of rounded
quantize_trunc(v, g) ==
    IF g <= 0 THEN v ELSE (v \div g) * g

\* the distance to the grid point instead of the grid point
quantize_residual(v, g) ==
    IF g <= 0 THEN v ELSE v - Round(v, g) * g

quantize_value(v, g) ==
    IF g <= 0 THEN v ELSE Round(v, g) * g

(***************************************************************************)
(* simplify_roman_figure                                                    *)
(***************************************************************************)
Digits == {"0", "1", "2", "3", "4", "5", "6", "7", "8", "9"}

isdigit(ch) == ch \in Digits

\* "sub" in s
Contains(s, sub) ==
    \E i \in 1..(Len(s) - Len(sub) + 1) : SubSeq(s, i, i + Len(sub) - 1) = sub

\* first_digit_idx, 1-based; 0 stands for None
first_digit_idx(fig) ==
    IF \E i \in 1..Len(fig) : isdigit(fig[i])
    THEN CHOOSE i \in 1..Len(fig) :
            isdigit(fig[i]) /\ \A j \in 1..(i - 1) : ~isdigit(fig[j])
    ELSE 0

\* "6" looked for before the seventh-chord inversions
suffix_six_first(trailing) ==
    IF Contains(trailing, <<"6">>) THEN <<"6">>
    ELSE IF Contains(trailing, <<"6", "5">>) THEN <<"6", "5">>
    ELSE IF Contains(trailing, <<"4", "3">>) THEN <<"4", "3">>
    ELSE IF Contains(trailing, <<"4", "2">>) THEN <<"4", "2">>
    ELSE IF Contains(trailing, <<"7">>) THEN <<"7">>
    ELSE IF Contains(trailing, <<"6", "4">>) THEN <<"6", "4">>
    ELSE << >>

\* the third inversion written 2 instead of 42
suffix_short_two(trailing) ==
    IF Contains(trailing, <<"6", "5">>) THEN <<"6", "5">>
    ELSE IF Contains(trailing, <<"4", "3">>) THEN <<"4", "3">>
    ELSE IF Contains(trailing, <<"4", "2">>) THEN <<"2">>
    ELSE IF Contains(trailing, <<"7">>) THEN <<"7">>
    ELSE IF Contains(trailing, <<"6", "4">>) THEN <<"6", "4">>
    ELSE IF Contains(trailing, <<"6">>) THEN <<"6">>
    ELSE << >>

suffix_of(trailing) ==
    IF Contains(trailing, <<"6", "5">>) THEN <<"6", "5">>
    ELSE IF Contains(trailing, <<"4", "3">>) THEN <<"4", "3">>
    ELSE IF Contains(trailing, <<"4", "2">>) THEN <<"4", "2">>
    ELSE IF Contains(trailing, <<"7">>) THEN <<"7">>
    ELSE IF Contains(trailing, <<"6", "4">>) THEN <<"6", "4">>
    ELSE IF Contains(trailing, <<"6">>) THEN <<"6">>
    ELSE << >>

simplify_roman_figure(fig) ==
    IF fig = << >> THEN fig
    ELSE LET i == first_digit_idx(fig)
             roman_root == IF i = 0 THEN fig ELSE SubSeq(fig, 1, i - 1)
             trailing == IF i = 0 THEN << >> ELSE SubSeq(fig, i, Len(fig))
         IN  roman_root \o suffix_of(trailing)

(***************************************************************************)
(* The reduced stream.  An element is a rest or a chord; a chord carries    *)
(* its number of pitches, the figure romanNumeralFromChord gives it in the  *)
(* effective key (None when the derivation raises), its offset and its      *)
(* duration.                                                                *)
(***************************************************************************)
FigI == << "I" >>
FigV == << "V" >>
FigV53 == << "V", "5", "3" >>

Rest(o) == [kind |-> "rest", pitches |-> 0, fig |-> None, offset |-> o, dur |-> 0]
Chord(n, f, o, d) ==
    [kind |-> "chord", pitches |-> n, fig |-> f, offset |-> o, dur |-> d]

\* Elements that differ in what the chord filter, the figure derivation and
\* the dedupe check see.
FigElems ==
    {Rest(0), Chord(2, FigI, 0, LongDur)}
    \cup {Chord(3, f, 0, LongDur) : f \in {None, FigI, FigV, FigV53}}

\* Elements that differ in offset and duration.
TimeElems ==
    {Chord(3, FigI, o, d) : o \in 0..MaxOffset, d \in {0, LongDur}}

RECURSIVE SeqsOver(_, _)
SeqsOver(S, n) ==
    IF n = 0 THEN {<< >>}
    ELSE LET shorter == SeqsOver(S, n - 1)
         IN  shorter \cup {Append(s, e) : s \in {t \in shorter : Len(t) = n - 1}, e \in S}

\* The example of the specification: figures I, I, V, V, V, I.
ExampleStream ==
    [i \in 1..6 |->
        Chord(3, IF i \in {3, 4, 5} THEN FigV ELSE FigI, i - 1, LongDur)]

\* The reduced streams main is run on.
FigStreams == SeqsOver(FigElems, MaxElems) \cup {ExampleStream}

\* The reduced streams analyze_chords is checked on.
Streams == FigStreams \cup SeqsOver(TimeElems, MaxElems)

Grids == (-1)..MaxGrid
MinNotes == {2, DefaultMinNotes}

(***************************************************************************)
(* analyze_chords                                                           *)
(***************************************************************************)
is_harmonic_chord(element, mn) ==
    IF element.kind = "chord" THEN element.pitches >= mn ELSE FALSE

roman_of_chord(ch) == ch.fig

\* pitch_names is kept as the number of pitches
AnalyzedChord(i, off, rom, sim, d, names) ==
    [index |-> i, offset_quarter |-> off, roman |-> rom, roman_simple |-> sim,
     duration_quarter |-> d, pitch_names |-> names]

\* the grid taken as fallback whatever its sign
duration_unguarded(element, g) ==
    IF element.dur <= 0 THEN g ELSE element.dur

\* dur_q after lines 223-225
duration_of(element, g) ==
    IF element.dur <= 0
    THEN (IF g # 0 /\ g > 0 THEN g ELSE FallbackDur)
    ELSE element.dur

\* the simplified figures compared instead of the detailed ones
is_duplicate_simple(dd, last, roman_str) ==
    dd /\ last # None
       /\ simplify_roman_figure(last) = simplify_roman_figure(roman_str)

\* the dedupe check of line 227
is_duplicate(dd, last, roman_str) == dd /\ last = roman_str

\* the loop body with idx advanced before the dedupe check
LoopBody_early_idx(st, element, g, dd, mn) ==
    IF ~is_harmonic_chord(element, mn) THEN st
    ELSE LET roman_str == roman_of_chord(element)
         IN  IF roman_str = None THEN st
             ELSE IF is_duplicate(dd, st.last_roman, roman_str)
                  THEN [st EXCEPT !.idx = st.idx + 1]
                  ELSE [results |->
                            Append(st.results,
                                   AnalyzedChord(st.idx, quantize_value(element.offset, g),
                                                 roman_str,
                                                 simplify_roman_figure(roman_str),
                                                 duration_of(element, g), element.pitches)),
                        last_roman |-> roman_str,
                        idx |-> st.idx + 1]

\* One pass of the loop body over element, from the locals st.
LoopBody(st, element, g, dd, mn) ==
    IF ~is_harmonic_chord(element, mn) THEN st
    ELSE LET roman_str == roman_of_chord(element)
         IN  IF roman_str = None THEN st
             ELSE LET offset_q == quantize_value(element.offset, g)
                      dur_q == duration_of(element, g)
                  IN  IF is_duplicate(dd, st.last_roman, roman_str) THEN st
                      ELSE [results |->
                                Append(st.results,
                                       AnalyzedChord(st.idx, offset_q, roman_str,
                                                     simplify_roman_figure(roman_str),
                                                     dur_q, element.pitches)),
                            last_roman |-> roman_str,
                            idx |-> st.idx + 1]

LoopStart == [results |-> << >>, last_roman |-> None, idx |-> 1]

RECURSIVE LoopFrom(_, _, _, _, _, _)
LoopFrom(st, s, k, g, dd, mn) ==
    IF k > Len(s) THEN st
    ELSE LoopFrom(LoopBody(st, s[k], g, dd, mn), s, k + 1, g, dd, mn)

\* the list analyze_chords returns for the reduced stream s
analyze_chords(s, g, dd, mn) == LoopFrom(LoopStart, s, 1, g, dd, mn).results

(***************************************************************************)
(* Idle values of the variables a specification does not use.               *)
(***************************************************************************)
ArgsIdle ==
    /\ grid = DefaultGrid /\ dedupe = FALSE /\ min_notes = DefaultMinNotes
    /\ limit = << >> /\ key_text = ""

LoopIdle ==
    /\ stream = << >> /\ pos = 0 /\ results = << >>
    /\ last_roman = None /\ idx = 1

MainIdle ==
    /\ error = "none" /\ effective_key = "unset" /\ analyzed = << >>
    /\ exported = {} /\ failed_at = 0 /\ warning = FALSE /\ header = FALSE
    /\ rows = << >> /\ no_chords = FALSE /\ exit_code = << >>

PureIdle ==
    /\ figure = << >> /\ simple = << >> /\ resimple = << >>
    /\ value = 0 /\ quantized = 0

(***************************************************************************)
(* SpecQuantize: quantize_value applied to every value and grid.            *)
(***************************************************************************)
InitQuantize ==
    /\ pc = "quantize"
    /\ value \in (-MaxValue)..MaxValue
    /\ grid \in Grids
    /\ dedupe = FALSE /\ min_notes = DefaultMinNotes
    /\ limit = << >> /\ key_text = ""
    /\ figure = << >> /\ simple = << >> /\ resimple = << >> /\ quantized = 0
    /\ LoopIdle /\ MainIdle

ApplyQuantize ==
    /\ pc = "quantize"
    /\ quantized' = quantize_value(value, grid)
    /\ pc' = "quantized"
    /\ UNCHANGED << argVars, loopVars, mainVars, figure, simple, resimple, value >>

SpecQuantize == InitQuantize /\ [][ApplyQuantize]_vars

(***************************************************************************)
(* SpecSimplify: simplify_roman_figure applied to every figure, then to its *)
(* own result.                                                              *)
(***************************************************************************)
FigChars == {"V", "/", "2", "3", "4", "5", "6", "7"}

InitSimplify ==
    /\ pc = "simplify"
    /\ figure \in SeqsOver(FigChars, MaxFigLen)
    /\ simple = << >> /\ resimple = << >> /\ value = 0 /\ quantized = 0
    /\ ArgsIdle /\ LoopIdle /\ MainIdle

ApplySimplify ==
    /\ pc = "simplify"
    /\ simple' = simplify_roman_figure(figure)
    /\ pc' = "simplified"
    /\ UNCHANGED << argVars, loopVars, mainVars, figure, resimple, value, quantized >>

ApplySimplifyAgain ==
    /\ pc = "simplified"
    /\ resimple' = simplify_roman_figure(simple)
    /\ pc' = "resimplified"
    /\ UNCHANGED << argVars, loopVars, mainVars, figure, simple, value, quantized >>

NextSimplify == ApplySimplify \/ ApplySimplifyAgain

SpecSimplify == InitSimplify /\ [][NextSimplify]_vars

(***************************************************************************)
(* SpecAnalyze: the loop of analyze_chords, one element per step, over      *)
(* every reduced stream and every grid, dedupe and min_notes.               *)
(***************************************************************************)
InitAnalyze ==
    /\ pc = "loop"
    /\ grid \in Grids
    /\ dedupe \in BOOLEAN
    /\ min_notes \in MinNotes
    /\ limit = << >> /\ key_text = ""
    /\ stream \in Streams
    /\ pos = 0 /\ results = << >> /\ last_roman = None /\ idx = 1
    /\ MainIdle /\ PureIdle

LoopStep ==
    /\ pc = "loop"
    /\ pos < Len(stream)
    /\ LET st == LoopBody([results |-> results, last_roman |-> last_roman, idx |-> idx],
                          stream[pos + 1], grid, dedupe, min_notes)
       IN  /\ results' = st.results
           /\ last_roman' = st.last_roman
           /\ idx' = st.idx
    /\ pos' = pos + 1
    /\ UNCHANGED << pc, argVars, stream, mainVars, pureVars >>

LoopReturn ==
    /\ pc = "loop"
    /\ pos = Len(stream)
    /\ analyzed' = results
    /\ pc' = "returned"
    /\ UNCHANGED << argVars, loopVars, error, effective_key, exported, failed_at,
                    warning, header, rows, no_chords, exit_code, pureVars >>

NextAnalyze == LoopStep \/ LoopReturn

SpecAnalyze == InitAnalyze /\ [][NextAnalyze]_vars

(***************************************************************************)
(* Spec: main.  The arguments are fixed before the run; what the file       *)
(* system, the key parser, the score parser, the key detector and the       *)
(* snippet writer answer is chosen when main asks them.                     *)
(***************************************************************************)
NoKeyText == ""
GoodKeyText == "A minor"
BadKeyText == "not a key"
KeyTexts == {NoKeyText, GoodKeyText, BadKeyText}

\* parse_key_argument raises on text
key_text_raises(text) == text = BadKeyText

Limits == {<< >>} \cup {<< n >> : n \in 0..MaxLimit}

Init ==
    /\ pc = "start"
    /\ grid \in Grids
    /\ dedupe \in BOOLEAN
    /\ min_notes \in MinNotes
    /\ limit \in Limits
    /\ key_text \in KeyTexts
    /\ LoopIdle /\ MainIdle /\ PureIdle

\* return 1 after a message on stderr
Abort(why) ==
    /\ error' = why
    /\ exit_code' = << 1 >>
    /\ pc' = "done"
    /\ UNCHANGED << effective_key, analyzed, exported, failed_at, warning,
                    header, rows, no_chords >>

\* lines 315-326: the input path does not exist, or it does
ResolveInput ==
    /\ pc = "start"
    /\ \E exists \in BOOLEAN :
          IF ~exists
          THEN Abort("missing_file")
          ELSE /\ pc' = "key"
               /\ UNCHANGED mainVars
    /\ UNCHANGED << argVars, loopVars, pureVars >>

\* the key override falling back to detection when it does not parse
ParseKeyOverride_fallback ==
    /\ pc = "key"
    /\ effective_key' =
           IF key_text # "" /\ ~key_text_raises(key_text) THEN "override" ELSE "unset"
    /\ pc' = "analyze"
    /\ UNCHANGED << error, analyzed, exported, failed_at, warning,
                    header, rows, no_chords, exit_code >>
    /\ UNCHANGED << argVars, loopVars, pureVars >>

\* lines 328-334
ParseKeyOverride ==
    /\ pc = "key"
    /\ IF key_text # "" /\ key_text_raises(key_text)
       THEN Abort("bad_key")
       ELSE /\ effective_key' = IF key_text # "" THEN "override" ELSE "unset"
            /\ pc' = "analyze"
            /\ UNCHANGED << error, analyzed, exported, failed_at, warning,
                            header, rows, no_chords, exit_code >>
    /\ UNCHANGED << argVars, loopVars, pureVars >>

\* lines 336-346: converter.parse raises, or gives a score whose reduced
\* stream is s; detect_key falls back to C major when the detection raises
Analyze ==
    /\ pc = "analyze"
    /\ \/ Abort("analysis_failed")
       \/ \E s \in FigStreams, detected \in BOOLEAN :
             /\ effective_key' =
                    IF effective_key = "override" THEN "override"
                    ELSE IF detected THEN "detected" ELSE "C major"
             /\ analyzed' = analyze_chords(s, grid, dedupe, min_notes)
             /\ pc' = "export"
             /\ UNCHANGED << error, exported, failed_at, warning, header, rows,
                             no_chords, exit_code >>
    /\ UNCHANGED << argVars, loopVars, pureVars >>

\* export_chord_midis: the indices written when the write of the record at
\* position fail raises (fail = 0: no write raises)
written_before(entries, fail) ==
    {entries[i].index : i \in 1..(IF fail = 0 THEN Len(entries) ELSE fail - 1)}

\* lines 348-354: mkdir raises, or the write of one record raises, or neither
ExportSnippets ==
    /\ pc = "export"
    /\ \/ /\ exported' = {}
          /\ failed_at' = 0
          /\ warning' = TRUE
       \/ \E fail \in 0..Len(analyzed) :
             /\ exported' = written_before(analyzed, fail)
             /\ failed_at' = IF fail = 0 THEN 0 ELSE analyzed[fail].index
             /\ warning' = (fail # 0)
    /\ pc' = "print"
    /\ UNCHANGED << error, effective_key, analyzed, header, rows, no_chords, exit_code >>
    /\ UNCHANGED << argVars, loopVars, pureVars >>

\* lines 371-376: the rows printed from position i on, count rows printed so far
RECURSIVE print_loop(_, _, _, _)
print_loop(entries, i, count, lim) ==
    IF i > Len(entries) THEN << >>
    ELSE << entries[i].index >>
         \o (IF lim # << >> /\ count + 1 >= lim[1]
             THEN << >>
             ELSE print_loop(entries, i + 1, count + 1, lim))

\* lines 356-380
PrintTable ==
    /\ pc = "print"
    /\ header' = TRUE
    /\ rows' = print_loop(analyzed, 1, 0, limit)
    /\ no_chords' = (Len(rows') = 0)
    /\ exit_code' = << 0 >>
    /\ pc' = "done"
    /\ UNCHANGED << error, effective_key, analyzed, exported, failed_at, warning >>
    /\ UNCHANGED << argVars, loopVars, pureVars >>

Next == ResolveInput \/ ParseKeyOverride \/ Analyze \/ ExportSnippets \/ PrintTable

Spec == Init /\ [][Next]_vars

(***************************************************************************)
(* Properties of analyze_chords (SpecAnalyze).                              *)
(***************************************************************************)
\* the element the loop is about to visit is a chord with enough notes and
\* a figure
Candidate(e) == e.kind = "chord" /\ e.pitches >= min_notes /\ e.fig # None

Stepping == pc = "loop" /\ pos' = pos + 1
Emitting == Stepping /\ Len(results') = Len(results) + 1
LastOf(s) == s[Len(s)]

\* C1: the records carry the indices 1, 2, ..., N in emission order, with no
\* gap or repeat, however many elements were skipped by the chord filter, for
\* want of a figure or by dedupe; this holds during the loop and of the list
\* analyze_chords returns.
C1_IndexContiguous ==
    /\ \A i \in 1..Len(results) : results[i].index = i
    /\ pc = "returned" =>
          /\ Len(analyzed) = Len(results)
          /\ \A i \in 1..Len(analyzed) : analyzed[i].index = i

\* two records with a rest skipped between them
C1_Witness ==
    /\ pc = "returned"
    /\ Len(stream) = 3 /\ stream[2].kind = "rest"
    /\ Len(analyzed) = 2 /\ analyzed[2].index = 2

\* what one step of the loop does to results
C2_StepRule ==
    Stepping =>
        LET e == stream[pos + 1]
        IN  /\ ~Candidate(e) => results' = results
            /\ Candidate(e) =>
                  /\ (results' = results) <=>
                         (dedupe /\ Len(results) > 0 /\ LastOf(results).roman = e.fig)
                  /\ (results' # results) =>
                         /\ Len(results') = Len(results) + 1
                         /\ SubSeq(results', 1, Len(results)) = results
                         /\ LastOf(results').roman = e.fig

C2_NoAdjacentEqual ==
    dedupe => \A i \in 1..(Len(results) - 1) : results[i].roman # results[i + 1].roman

C2_Example ==
    (pc = "returned" /\ dedupe /\ stream = ExampleStream) =>
        /\ [i \in 1..Len(analyzed) |-> analyzed[i].roman] = << FigI, FigV, FigI >>
        /\ [i \in 1..Len(analyzed) |-> analyzed[i].index] = << 1, 2, 3 >>

\* C2: with dedupe, a candidate is suppressed exactly when its detailed
\* figure equals the roman of the last emitted record (also across skipped
\* elements), so no two adjacent records have equal roman; the figures
\* I, I, V, V, V, I give the romans I, V, I with indices 1, 2, 3; a candidate
\* whose roman differs from the last record's is emitted even when the two
\* simplified figures are equal.
C2_Dedupe == [](C2_NoAdjacentEqual /\ C2_Example) /\ [][C2_StepRule]_vars

\* V, V again (suppressed), then V53 (emitted: same simplified figure, other
\* roman)
C2_Witness ==
    /\ pc = "returned" /\ dedupe
    /\ Len(stream) = 3
    /\ stream[1].fig = FigV /\ stream[1].pitches = 3
    /\ stream[2].fig = FigV /\ stream[2].pitches = 3
    /\ stream[3].fig = FigV53
    /\ Len(analyzed) = 2
    /\ analyzed[1].roman_simple = analyzed[2].roman_simple

\* the duration of the record a step emits
C4_StepRule ==
    Emitting =>
        LET e == stream[pos + 1]
            r == LastOf(results')
        IN  /\ e.dur > 0 => r.duration_quarter = e.dur
            /\ (e.dur <= 0 /\ grid > 0) => r.duration_quarter = grid
            /\ (e.dur <= 0 /\ grid <= 0) => r.duration_quarter = FallbackDur

C4_Positive == \A i \in 1..Len(results) : results[i].duration_quarter > 0

\* C4: every record has a positive duration: a positive source duration is
\* kept as it is (not quantized); a source duration <= 0 is replaced by the
\* grid when the grid is positive and by 0.25 otherwise.
C4_Duration == []C4_Positive /\ [][C4_StepRule]_vars

\* source duration 0 with grid 0.5 gives 0.5, and a positive source duration
\* that is no multiple of the grid is kept
C4_Witness ==
    /\ grid = 2 /\ pos = 2 /\ Len(results) = 2
    /\ stream[1].dur = 0 /\ results[1].duration_quarter = 2
    /\ stream[2].dur = LongDur /\ results[2].duration_quarter = LongDur

\* the elements come in non-decreasing offset order
SourceSorted ==
    \A i \in 1..(Len(stream) - 1) : stream[i].offset <= stream[i + 1].offset

\* C8: for a stream visited in non-decreasing offset order and any grid, the
\* offsets of the records are non-decreasing in index order.
C8_OffsetsMonotonic ==
    SourceSorted =>
        \A i \in 1..(Len(results) - 1) :
            results[i].offset_quarter <= results[i + 1].offset_quarter

\* offsets 0.25, 0.5, 0.75 on a grid of 0.5: two half-grid ties
C8_Witness ==
    /\ pc = "returned" /\ grid = 2 /\ Len(analyzed) = 3
    /\ [i \in 1..3 |-> stream[i].offset] = << 1, 2, 3 >>
    /\ [i \in 1..3 |-> analyzed[i].offset_quarter] = << 0, 2, 4 >>

(***************************************************************************)
(* Properties of quantize_value (SpecQuantize).                             *)
(***************************************************************************)
Abs(x) == IF x < 0 THEN -x ELSE x

\* C7: quantize_value returns value unchanged for every grid <= 0; for a
\* grid > 0 it returns k * grid with k an integer nearest to value / grid, so
\* the result is a multiple of the grid at most grid / 2 away from value.
C7_Quantize ==
    pc = "quantized" =>
        /\ grid <= 0 => quantized = value
        /\ grid > 0 =>
              /\ quantized % grid = 0
              /\ 2 * Abs(quantized - value) <= grid
              /\ \A m \in (-MaxValue - 1)..(MaxValue + 1) :
                    Abs(quantized - value) <= Abs(m * grid - value)

\* 0.75 on a grid of 0.5: the tie 1.5 goes to 2 steps
C7_Witness == pc = "quantized" /\ grid = 2 /\ value = 3 /\ quantized = 4

(***************************************************************************)
(* Properties of simplify_roman_figure (SpecSimplify).                      *)
(***************************************************************************)
\* the suffixes in the order they are looked for
SuffixOrder == << <<"6", "5">>, <<"4", "3">>, <<"4", "2">>, <<"7">>, <<"6", "4">>, <<"6">> >>

\* length of the longest prefix of fig without a digit
RootLen(fig) ==
    CHOOSE k \in 0..Len(fig) :
        /\ \A i \in 1..k : fig[i] \notin Digits
        /\ k < Len(fig) => fig[k + 1] \in Digits

\* the first suffix of SuffixOrder present in rest, the empty one if none is
ExpectedSuffix(rest) ==
    LET present == {n \in 1..Len(SuffixOrder) : Contains(rest, SuffixOrder[n])}
    IN  IF present = {} THEN << >>
        ELSE SuffixOrder[CHOOSE n \in present : \A m \in present : n <= m]

EndsWith(s, tail) ==
    Len(s) >= Len(tail) /\ SubSeq(s, Len(s) - Len(tail) + 1, Len(s)) = tail

\* C6: simplify_roman_figure(figure) is root + suffix, root being the
\* characters before the first digit and suffix the first of 65, 43, 42, 7,
\* 64, 6 present in the rest (none: empty); a figure containing 65 gives a
\* result ending in 65 (V6532 gives V65), a figure without digits is
\* returned unchanged and the empty figure gives the empty string.
C6_Simplify ==
    pc # "simplify" =>
        LET k == RootLen(figure)
        IN  /\ simple = SubSeq(figure, 1, k)
                          \o ExpectedSuffix(SubSeq(figure, k + 1, Len(figure)))
            /\ Contains(figure, <<"6", "5">>) => EndsWith(simple, <<"6", "5">>)
            /\ figure = <<"V", "6", "5", "3", "2">> => simple = <<"V", "6", "5">>
            /\ (\A i \in 1..Len(figure) : figure[i] \notin Digits) => simple = figure
            /\ figure = << >> => simple = << >>

C6_Witness ==
    /\ pc = "simplified"
    /\ figure = <<"V", "6", "5", "3", "2">>
    /\ simple = <<"V", "6", "5">>

\* C10: simplify_roman_figure is idempotent: simplifying a simplified figure
\* gives it back.
C10_Idempotent == pc = "resimplified" => resimple = simple

C10_Witness ==
    /\ pc = "resimplified"
    /\ figure = <<"V", "6", "4", "2">>
    /\ simple = <<"V", "4", "2">>
    /\ resimple = simple

(***************************************************************************)
(* Properties of main (Spec).                                               *)
(***************************************************************************)
IndicesOf(entries) == {entries[i].index : i \in 1..Len(entries)}
Returned == pc = "done"
Min(a, b) == IF a <= b THEN a ELSE b

\* C3: when the write of one record's snippet fails, the snippets of all the
\* other records are written, a warning is reported, the table is printed in
\* full and the exit code is 0.
C3_ExportIsolated ==
    (Returned /\ failed_at # 0) =>
        /\ exported = IndicesOf(analyzed) \ {failed_at}
        /\ warning
        /\ header
        /\ limit = << >> => rows = [i \in 1..Len(analyzed) |-> analyzed[i].index]
        /\ exit_code = << 0 >>

C9_LimitRows ==
    (Returned /\ exit_code = << 0 >> /\ limit # << >>) =>
        rows = [i \in 1..Min(limit[1], Len(analyzed)) |-> analyzed[i].index]

====
